---- MODULE Spec2Model ----
(***************************************************************************)
(* Model of paperless_asn_qr_codes/avery_labels.py: the label catalog,     *)
(* the AveryLabel cursor (position), the slot geometry (topLeft) and the   *)
(* render / render_iterator / advance / close pagination machine.          *)
(*                                                                         *)
(* The reportlab canvas is an external collaborator.  It is modelled as a  *)
(* recorder of the calls the class makes on it: `code` is the list of      *)
(* operations issued on the page being built, `pages` the pages ended by   *)
(* showPage(), `stack` the number of saveState() calls not yet matched by  *)
(* a restoreState(), `saves` the number of save() calls.                   *)
(*                                                                         *)
(* Lengths are exact rationals scaled to integers: one point is Pt units,  *)
(* so that every mm and inch value of the catalog is a whole number.       *)
(***************************************************************************)
EXTENDS Integers, Sequences, FiniteSets, TLC

\* ---------------------------------------------------------------- bounds
MaxCap   == 2       \* largest across * down injected through kwargs
MaxCalls == 1       \* render / render_iterator calls on one AveryLabel
MaxCount == 3       \* largest integer count handed to one render call
MaxItems == 3       \* longest sequence behind an iterator

\* ----------------------------------------------------------------- units
\* reportlab.lib.units: inch = 72.0, mm = inch / 25.4 (points)
Pt   == 12700
cmm  == 360         \* 0.01 mm
cin  == 9144        \* 0.01 inch
mm   == 100 * cmm
inch == 100 * cin

\* reportlab.lib.pagesizes
LETTER == <<612 * Pt, 792 * Pt>>
A4     == <<210 * mm, 297 * mm>>

LabelInfo(h, v, ls, gs, m, r, ps) ==
  [labels_horizontal |-> h, labels_vertical |-> v, label_size |-> ls,
   gutter_size |-> gs, margin |-> m, radius |-> r, pagesize |-> ps]

labelInfo ==
  [royalgreen1660 |-> LabelInfo(7, 22, <<2540 * cmm, 952 * cmm>>,
                                <<250 * cmm, 245 * cmm>>,
                                <<1155 * cmm, 873 * cmm>>, 3, LETTER),
   averyL4731     |-> LabelInfo(7, 27, <<2540 * cmm, 10 * mm>>,
                                <<250 * cmm, 0>>,
                                <<9 * mm, 1350 * cmm>>, 4, A4),
   avery5160      |-> LabelInfo(3, 10, <<187 * Pt, 72 * Pt>>, <<11 * Pt, 0>>,
                                <<14 * Pt, 36 * Pt>>, 0, LETTER),
   avery5161      |-> LabelInfo(2, 10, <<288 * Pt, 72 * Pt>>, <<0, 0>>,
                                <<18 * Pt, 36 * Pt>>, 0, LETTER),
   avery5163      |-> LabelInfo(2, 5, <<288 * Pt, 144 * Pt>>, <<0, 0>>,
                                <<18 * Pt, 36 * Pt>>, 0, LETTER),
   avery5167      |-> LabelInfo(4, 20, <<175 * cin, 50 * cin>>,
                                <<30 * cin, 0>>,
                                <<30 * cin, 50 * cin>>, 0, LETTER),
   avery5371      |-> LabelInfo(2, 5, <<252 * Pt, 144 * Pt>>, <<0, 0>>,
                                <<54 * Pt, 36 * Pt>>, 0, LETTER)]

\* Templates the model constructs renderers from.
Labels == {"avery5163", "royalgreen1660"}

\* The names handed to __init__: those, and one the catalog does not have.
Names == Labels \cup {"avery0000"}

\* the fields of an AveryLabel that was never made
NoData == LabelInfo(0, 0, <<0, 0>>, <<0, 0>>, <<0, 0>>, 0, <<0, 0>>)

\* variant: an unknown name falls back on a template (dict.get)
lookupDefault(name) ==
  IF name \in DOMAIN labelInfo
  THEN [err |-> "ok", data |-> labelInfo[name]]
  ELSE [err |-> "ok", data |-> labelInfo["avery5160"]]

\* labelInfo[label] (line 109): a name that is no key raises KeyError
lookup(name) ==
  IF name \in DOMAIN labelInfo
  THEN [err |-> "ok", data |-> labelInfo[name]]
  ELSE [err |-> "KeyError", data |-> NoData]

\* ----------------------------------------------------------------- state
VARIABLES
  label,      \* the catalog key given to __init__
  across, down, size, labelsep, gutter, margins, topDown, debug, radius,
  pagesize,   \* the fields __init__ sets
  position,   \* the cursor
  canvas,     \* "absent" before open(), "Canvas" while open, "None" after close()
  compression,\* the canvas's page compression (rl_config default 1)
  code,       \* operations issued on the page being built
  pages,      \* pages ended by showPage(), oldest first
  stack,      \* saveState() calls not yet restored
  saves,      \* save() calls on the canvas
  it,         \* items left in the iterator the caller holds
  err,        \* how the last call ended: "ok" or the exception raised
  errIn,      \* the method of AveryLabel that exception came out of
  startPos,   \* position when the canvas was opened
  drawn,      \* draws completed
  failed,     \* draws that ended in an exception
  calls       \* render / render_iterator calls so far

cfg  == <<label, across, down, size, labelsep, gutter, margins, topDown,
          debug, radius, pagesize>>
vars == <<label, across, down, size, labelsep, gutter, margins, topDown,
          debug, radius, pagesize, position, canvas, compression, code, pages, stack,
          saves, it, err, errIn, startPos, drawn, failed, calls>>

\* one call on the canvas, as recorded on the page being built
Op(o, a, b) == [op |-> o, a |-> a, b |-> b]

\* ------------------------------------------------------------- __init__
\* kwargs may override any field; the model overrides across, down,
\* topDown and position, and leaves the rest as the catalog gives them.
GridOverrides ==
  {g \in (1..MaxCap) \X (1..MaxCap) : g[1] * g[2] <= MaxCap}

\* position=p0 in kwargs: the first slot (the default) or one of the last
\* two
StartPositions(c) == {p \in {0, c - 2, c - 1} : p >= 0}

\* AveryLabel(label, **kwargs); kwPosition says whether kwargs may hold
\* position.
construct(kwPosition) ==
  /\ label \in Names
  /\ LET d == lookup(label)
     IN /\ err = d.err
        /\ errIn = IF d.err = "ok" THEN "" ELSE "__init__"
        /\ IF d.err = "ok"
           THEN /\ \E g \in GridOverrides \cup {<<d.data.labels_horizontal,
                                                  d.data.labels_vertical>>} :
                     /\ across = g[1]
                     /\ down = g[2]
                /\ topDown \in BOOLEAN
                /\ debug \in BOOLEAN
                /\ position \in IF kwPosition
                                 THEN StartPositions(across * down)
                                 ELSE {0}
           ELSE /\ across = 0
                /\ down = 0
                /\ topDown = TRUE
                /\ debug = FALSE
                /\ position = 0
        /\ size = d.data.label_size
        /\ labelsep = <<size[1] + d.data.gutter_size[1], size[2]>>
        /\ gutter = d.data.gutter_size[2]
        /\ margins = d.data.margin
        /\ radius = d.data.radius
        /\ pagesize = d.data.pagesize
  /\ canvas = "absent"
  /\ compression = 1
  /\ code = <<>>
  /\ pages = <<>>
  /\ stack = 0
  /\ saves = 0
  /\ it = <<>>
  /\ startPos = position
  /\ drawn = 0
  /\ failed = 0
  /\ calls = 0

\* Construction with the layout kwargs only: position is the default 0.
Init == construct(FALSE)

\* Construction where kwargs may also set position.
InitKwargs == construct(TRUE)

\* The methods below are called on the object __init__ returned.
Constructed == errIn # "__init__"

\* ----------------------------------------------------------------- open
\* variant: open puts the cursor back on the first slot
openAtZero ==
  /\ Constructed
  /\ canvas = "absent"
  /\ canvas' = "Canvas"
  /\ compression' = IF debug THEN 0 ELSE compression
  /\ code' = <<Op("setLineJoin", 1, 0), Op("setLineCap", 1, 0)>>
  /\ pages' = <<>>
  /\ stack' = 0
  /\ saves' = 0
  /\ err' = "ok"
  /\ errIn' = ""
  /\ startPos' = position
  /\ position' = 0
  /\ UNCHANGED <<cfg, it, drawn, failed, calls>>

\* Called once, as in the usage at the head of the file.
open ==
  /\ Constructed
  /\ canvas = "absent"
  /\ canvas' = "Canvas"
  /\ compression' = IF debug THEN 0 ELSE compression
  /\ code' = <<Op("setLineJoin", 1, 0), Op("setLineCap", 1, 0)>>
  /\ pages' = <<>>
  /\ stack' = 0
  /\ saves' = 0
  /\ err' = "ok"
  /\ errIn' = ""
  /\ startPos' = position
  /\ UNCHANGED <<cfg, position, it, drawn, failed, calls>>

\* --------------------------------------------------------------- topLeft
\* Python's divmod for a non-negative x and a positive divisor
divmod(x, d) == <<x \div d, x % d>>

None == -1          \* an argument left at its default

\* variant: the row-major order divides by down, as the top-down one does
scanByDown(td, x) ==
  IF td
  THEN divmod(x, down)
  ELSE <<divmod(x, down)[2], divmod(x, down)[1]>>

\* The slot's column and row (lines 137-140), in scan order td.
scan(td, x) ==
  IF td
  THEN divmod(x, down)
  ELSE <<divmod(x, across)[2], divmod(x, across)[1]>>

\* variant: the rows are stepped by the gutter alone
placeGutterOnly(xy) ==
  <<margins[1] + xy[1] * labelsep[1],
    pagesize[2] - margins[2] - xy[2] * gutter - labelsep[2]>>

\* variant: the row gutter is left out of the row step
placeNoGutter(xy) ==
  <<margins[1] + xy[1] * labelsep[1],
    pagesize[2] - margins[2] - (xy[2] + 1) * labelsep[2]>>

\* The origin of the label in column xy[1], row xy[2] (lines 142-145).
place(xy) ==
  <<margins[1] + xy[1] * labelsep[1],
    pagesize[2] - margins[2] - xy[2] * gutter - (xy[2] + 1) * labelsep[2]>>

\* variant: the two scan orders exchanged
topLeftSwapped(self, x, y) ==
  LET x1 == IF x = None THEN self.position ELSE x
      xy == IF y = None THEN scan(~topDown, x1) ELSE <<x1, y>>
  IN place(xy)

topLeft(self, x, y) ==
  LET x1 == IF x = None THEN self.position ELSE x
      xy == IF y = None THEN scan(topDown, x1) ELSE <<x1, y>>
  IN place(xy)

\* ------------------------------------------------ the renderer's state
\* The fields a call reads and writes, gathered in one record so that the
\* loops of render and render_iterator can be written as operators.
Self == [position |-> position, canvas |-> canvas, code |-> code,
         pages |-> pages, stack |-> stack, saves |-> saves, it |-> it,
         err |-> "ok"]

\* canvas calls
showPage(self) == [self EXCEPT !.pages = Append(@, self.code), !.code = <<>>]
saveState(self) ==
  [self EXCEPT !.code = Append(@, Op("saveState", 0, 0)), !.stack = @ + 1]
restoreState(self) ==
  [self EXCEPT !.code = Append(@, Op("restoreState", 0, 0)), !.stack = @ - 1]
translate(self, xy) ==
  [self EXCEPT !.code = Append(@, Op("translate", xy[1], xy[2]))]
\* setLineWidth(0.25), roundRect(0, 0, size[0], size[1], radius)
debugOutline(self) ==
  [self EXCEPT !.code = @ \o <<Op("setLineWidth", 0, 0),
                                Op("roundRect", size[1], size[2])>>]
raise(self, e) == [self EXCEPT !.err = e]

\* --------------------------------------------------------------- advance
\* variant: the page is ended one label late (> in place of ==)
advanceLate(self) ==
  LET s1 == [self EXCEPT !.position = @ + 1]
  IN IF s1.position > across * down
     THEN [showPage(s1) EXCEPT !.position = 0]
     ELSE s1

\* variant: the page is ended but the cursor is not put back to 0
advanceNoReset(self) ==
  LET s1 == [self EXCEPT !.position = @ + 1]
  IN IF s1.position = across * down THEN showPage(s1) ELSE s1

\* variant: the cursor wraps but the full page is left open
advanceKeepPage(self) ==
  LET s1 == [self EXCEPT !.position = @ + 1]
  IN IF s1.position = across * down
     THEN [s1 EXCEPT !.position = 0]
     ELSE s1

advance(self) ==
  LET s1 == [self EXCEPT !.position = @ + 1]
  IN IF s1.position = across * down
     THEN [showPage(s1) EXCEPT !.position = 0]
     ELSE s1

\* ----------------------------------------------------------------- close
\* Any call on a canvas that is not there raises AttributeError.
save(self) == [self EXCEPT !.saves = @ + 1]

\* variant: the last page is ended whatever the cursor
closeAlwaysShow(self) ==
  IF self.canvas # "Canvas"
  THEN raise(self, "AttributeError")
  ELSE [save(showPage(self)) EXCEPT !.canvas = "None"]

\* variant: the open page is not ended
closeNoFlush(self) ==
  IF self.canvas # "Canvas"
  THEN raise(self, "AttributeError")
  ELSE [save(self) EXCEPT !.canvas = "None"]

\* variant: a close without a canvas returns quietly
closeQuiet(self) ==
  IF self.canvas # "Canvas"
  THEN self
  ELSE LET s1 == IF self.position # 0 THEN showPage(self) ELSE self
       IN [save(s1) EXCEPT !.canvas = "None"]

closeCanvas(self) ==
  IF self.canvas # "Canvas"
  THEN raise(self, "AttributeError")
  ELSE LET s1 == IF self.position # 0 THEN showPage(self) ELSE self
       IN [save(s1) EXCEPT !.canvas = "None"]

\* The caller's view of a finished call: the fields are stored back, and
\* the draw counters are brought up to date from the page records.
RECURSIVE Flatten(_)
Flatten(ps) == IF ps = <<>> THEN <<>> ELSE Head(ps) \o Flatten(Tail(ps))

Count(ops, kinds) == Cardinality({j \in 1..Len(ops) : ops[j].op \in kinds})

Units(ops) == Count(ops, {"call", "doForm"})

Store(s, method) ==
  LET done == Units(Flatten(s.pages) \o s.code)
                - Units(Flatten(pages) \o code)
      fail == IF s.stack > stack THEN 1 ELSE 0
  IN /\ position' = s.position
     /\ canvas' = s.canvas
     /\ code' = s.code
     /\ pages' = s.pages
     /\ stack' = s.stack
     /\ saves' = s.saves
     /\ it' = s.it
     /\ err' = s.err
     /\ errIn' = IF s.err = "ok" THEN "" ELSE method
     /\ drawn' = drawn + done
     /\ failed' = failed + fail
     /\ UNCHANGED <<cfg, compression, startPos>>

close ==
  /\ Constructed
  /\ Store(closeCanvas(Self), "close")
  /\ UNCHANGED calls

\* ---------------------------------------------------------------- render
\* What is handed in as `thing`: a callable, a form name, or anything else.
Things == {"callable", "str", "other"}

\* The content of one label in render (lines 178-181).  `raises` says
\* whether the callable raises during this call; doForm only records the
\* form's name in the page.
renderContent(self, thing, raises) ==
  IF thing = "callable"
  THEN IF raises
       THEN raise([self EXCEPT !.code = Append(@, Op("raise", 0, 0))],
                  "CallbackError")
       ELSE [self EXCEPT !.code = Append(@, Op("call", 0, 0))]
  ELSE IF thing = "str"
       THEN [self EXCEPT !.code = Append(@, Op("doForm", 0, 0))]
       ELSE self

\* variant: the cursor is advanced before the content is drawn
renderBodyAdvanceFirst(self, thing, raises) ==
  LET s1 == translate(saveState(self), topLeft(self, None, None))
      s2 == IF debug THEN debugOutline(s1) ELSE s1
      s3 == renderContent(advance(s2), thing, raises)
  IN IF s3.err # "ok" THEN s3 ELSE restoreState(s3)

\* One pass of the loop body of render (lines 173-183).
renderBody(self, thing, raises) ==
  LET s1 == translate(saveState(self), topLeft(self, None, None))
      s2 == IF debug THEN debugOutline(s1) ELSE s1
      s3 == renderContent(s2, thing, raises)
  IN IF s3.err # "ok" THEN s3 ELSE advance(restoreState(s3))

\* for i in range(count): the first iteration that raises ends the loop.
\* failAt = 0: no call raises; failAt = i: the i-th call from here raises.
\* variant: range(count + 1)
RECURSIVE renderLoopExtra(_, _, _, _)
renderLoopExtra(self, thing, count, failAt) ==
  IF count < 0
  THEN self
  ELSE LET s1 == renderBody(self, thing, failAt = 1)
       IN IF s1.err # "ok"
          THEN s1
          ELSE renderLoopExtra(s1, thing, count - 1,
                               IF failAt = 0 THEN 0 ELSE failAt - 1)

RECURSIVE renderLoop(_, _, _, _)
renderLoop(self, thing, count, failAt) ==
  IF count <= 0
  THEN self
  ELSE LET s1 == renderBody(self, thing, failAt = 1)
       IN IF s1.err # "ok"
          THEN s1
          ELSE renderLoop(s1, thing, count - 1,
                          IF failAt = 0 THEN 0 ELSE failAt - 1)

\* ------------------------------------------------------- render_iterator
\* One pass of the loop body of render_iterator (lines 188-195); func is
\* called whatever it is, so a func that is not callable raises TypeError.
\* variant: the cursor is not advanced after the label
iteratorBodyNoAdvance(self, func, chunk, raises) ==
  LET s1 == translate(saveState(self), topLeft(self, None, None))
      s2 == IF debug THEN debugOutline(s1) ELSE s1
  IN IF func # "callable"
     THEN raise(s2, "TypeError")
     ELSE IF raises
          THEN raise([s2 EXCEPT !.code = Append(@, Op("raise", chunk, 0))],
                     "CallbackError")
          ELSE restoreState(
                 [s2 EXCEPT !.code = Append(@, Op("call", chunk, 0))])

iteratorBody(self, func, chunk, raises) ==
  LET s1 == translate(saveState(self), topLeft(self, None, None))
      s2 == IF debug THEN debugOutline(s1) ELSE s1
  IN IF func # "callable"
     THEN raise(s2, "TypeError")
     ELSE IF raises
          THEN raise([s2 EXCEPT !.code = Append(@, Op("raise", chunk, 0))],
                     "CallbackError")
          ELSE advance(restoreState(
                 [s2 EXCEPT !.code = Append(@, Op("call", chunk, 0))]))

\* variant: for chunk in list(iterator), the items all taken beforehand
RECURSIVE drawList(_, _, _, _)
drawList(self, func, items, failAt) ==
  IF items = <<>>
  THEN self
  ELSE IF self.canvas = "None"
       THEN raise(self, "AttributeError")
       ELSE LET s1 == iteratorBody(self, func, Head(items), failAt = 1)
            IN IF s1.err # "ok"
               THEN s1
               ELSE drawList(s1, func, Tail(items),
                             IF failAt = 0 THEN 0 ELSE failAt - 1)

render_iteratorEager(self, func, failAt) ==
  IF self.canvas = "absent"
  THEN raise(self, "AttributeError")
  ELSE drawList([self EXCEPT !.it = <<>>], func, self.it, failAt)

\* variant: an item whose draw fails is put back into the iterator
RECURSIVE render_iteratorPutBack(_, _, _)
render_iteratorPutBack(self, func, failAt) ==
  IF self.canvas = "absent"
  THEN raise(self, "AttributeError")
  ELSE IF self.it = <<>>
       THEN self
       ELSE LET taken == [self EXCEPT !.it = Tail(@)]
            IN IF self.canvas = "None"
               THEN raise(taken, "AttributeError")
               ELSE LET s1 == iteratorBody(taken, func, Head(self.it),
                                           failAt = 1)
                    IN IF s1.err # "ok"
                       THEN [s1 EXCEPT !.it = self.it]
                       ELSE render_iteratorPutBack(s1, func,
                               IF failAt = 0 THEN 0 ELSE failAt - 1)

\* for chunk in iterator: next() takes the item before the body runs.
RECURSIVE render_iterator(_, _, _)
render_iterator(self, func, failAt) ==
  IF self.canvas = "absent"
  THEN raise(self, "AttributeError")
  ELSE IF self.it = <<>>
       THEN self
       ELSE LET taken == [self EXCEPT !.it = Tail(@)]
            IN IF self.canvas = "None"
               THEN raise(taken, "AttributeError")
               ELSE LET s1 == iteratorBody(taken, func, Head(self.it),
                                           failAt = 1)
                    IN IF s1.err # "ok"
                       THEN s1
                       ELSE render_iterator(s1, func,
                               IF failAt = 0 THEN 0 ELSE failAt - 1)

\* render with an integer count (lines 167, 171-183)
renderCount(self, thing, count, failAt) ==
  IF thing = "other"
  THEN raise(self, "AssertionError")
  ELSE IF self.canvas = "absent"
       THEN raise(self, "AttributeError")
       ELSE IF self.canvas = "None"
            THEN IF count > 0 THEN raise(self, "AttributeError") ELSE self
            ELSE renderLoop(self, thing, count, failAt)

\* render with an iterator as count (lines 167-169)
renderIter(self, thing, failAt) ==
  IF thing = "other"
  THEN raise(self, "AssertionError")
  ELSE render_iterator(self, thing, failAt)

\* Calls that raise: at most one per call, any of the calls it makes.
FailAts(thing, n) == IF thing = "callable" THEN 0..n ELSE {0}

\* Fresh iterators: over the sequences <<1, ..., n>>
Items(n) == [i \in 1..n |-> i]

\* What the caller hands in as an iterator: a fresh one, or the one held.
Sources == {Items(n) : n \in 0..MaxItems} \cup {it}

render ==
  /\ Constructed
  /\ calls < MaxCalls
  /\ calls' = calls + 1
  /\ \E thing \in Things :
       \/ \E count \in -1..MaxCount : \E failAt \in FailAts(thing, count) :
             Store(renderCount(Self, thing, count, failAt), "render")
       \/ \E src \in Sources : \E failAt \in FailAts(thing, Len(src)) :
             Store(renderIter([Self EXCEPT !.it = src], thing, failAt),
                   IF thing = "other" THEN "render" ELSE "render_iterator")

\* render_iterator called directly
renderIterator ==
  /\ Constructed
  /\ calls < MaxCalls
  /\ calls' = calls + 1
  /\ \E func \in Things : \E src \in Sources :
       \E failAt \in FailAts(func, Len(src)) :
         Store(render_iterator([Self EXCEPT !.it = src], func, failAt),
               "render_iterator")

\* The caller calls render_iterator again with the iterator it holds, after
\* a call that left items in it.
retry ==
  /\ Constructed
  /\ errIn = "render_iterator"
  /\ it # <<>>
  /\ \E failAt \in FailAts("callable", Len(it)) :
       Store(render_iterator(Self, "callable", failAt), "render_iterator")
  /\ UNCHANGED calls

Next == open \/ close \/ render \/ renderIterator

Spec == Init /\ [][Next]_vars

\* The same program, constructed with position in kwargs.
SpecKwargs == InitKwargs /\ [][Next]_vars

\* The program of a caller that feeds iterators and retries after a failure.
NextRetry == open \/ close \/ renderIterator \/ retry

SpecRetry == Init /\ [][NextRetry]_vars

\* ================================================================ claims
Cap == across * down

\* every operation issued so far, page by page and then the open page
Doc == Flatten(pages) \o code

\* the origin topLeft gives slot i
SlotOrigin(i) == topLeft([position |-> i], None, None)

\* The units of a list of operations, in order: each completed content
\* with the origin of the translate before it.
RECURSIVE UnitsAt(_, _)
UnitsAt(ops, at) ==
  IF ops = <<>>
  THEN <<>>
  ELSE LET o == Head(ops)
       IN IF o.op = "translate"
          THEN UnitsAt(Tail(ops), <<o.a, o.b>>)
          ELSE IF o.op \in {"call", "doForm"}
               THEN <<[at |-> at, kind |-> o.op, arg |-> o.a]>>
                      \o UnitsAt(Tail(ops), at)
               ELSE UnitsAt(Tail(ops), at)

Drawn(ops) == UnitsAt(ops, <<0, 0>>)

CeilDiv(k, c) == (k + c - 1) \div c

LastCount(k, c) == IF k % c = 0 THEN c ELSE k % c

C2_PageContents ==
  (canvas = "None" /\ startPos = 0 /\ drawn > 0)
    => \A p \in 1..Len(pages) :
         LET us == Drawn(pages[p])
         IN /\ Len(us) = IF p < Len(pages) THEN Cap
                          ELSE LastCount(drawn, Cap)
            /\ \A i \in 1..Len(us) : us[i].at = SlotOrigin(i - 1)

\* unit c+1 is the only unit of page 2, at slot 0
C2_Witness ==
  /\ canvas = "None" /\ startPos = 0 /\ Cap = 2 /\ drawn = 3
  /\ Len(pages) = 2
  /\ Len(Drawn(pages[1])) = 2
  /\ Len(Drawn(pages[2])) = 1
  /\ Drawn(pages[2])[1].at = SlotOrigin(0)

\* C3: close() on an open canvas ends a page exactly when position > 0; it
\* then saves and releases the canvas.  After a positive multiple of c
\* draws, or after none, it ends no page.
C3_NoBlankTrailingPage ==
  /\ canvas = "Canvas" =>
       LET r == closeCanvas(Self)
       IN /\ r.err = "ok"
          /\ r.pages = IF position > 0 THEN Append(pages, code) ELSE pages
          /\ r.saves = saves + 1
          /\ r.canvas = "None"
          /\ (startPos = 0 /\ drawn % Cap = 0) => r.pages = pages
  /\ canvas = "None" =>
       /\ saves = 1
       /\ (startPos = 0 /\ drawn % Cap = 0) => Len(pages) = drawn \div Cap
       /\ (startPos = 0 /\ drawn = 0) => pages = <<>>

\* a sheet filled exactly and closed: one page, no blank one after it
C3_Witness ==
  /\ canvas = "None" /\ saves = 1 /\ startPos = 0
  /\ drawn = Cap /\ Cap = 2 /\ Len(pages) = 1

\* C4: when the callback raises during the f-th draw of a render or
\* render_iterator call, the exception comes out of the call, the f - 1
\* draws before it keep their effect, and the failing draw neither moves
\* position nor ends a page.
AfterDraws(r, n) ==
  /\ r.position = (position + n) % Cap
  /\ Len(r.pages) = Len(pages) + (position + n) \div Cap
  /\ Units(Flatten(r.pages) \o r.code) = Units(Doc) + n

C4_FailureKeepsCursor ==
  canvas = "Canvas" =>
    /\ \A count \in 1..MaxCount : \A f \in 1..count :
         LET r == renderCount(Self, "callable", count, f)
         IN r.err = "CallbackError" /\ AfterDraws(r, f - 1)
    /\ \A n \in 1..MaxItems : \A f \in 1..n :
         LET r == renderIter([Self EXCEPT !.it = Items(n)], "callable", f)
         IN r.err = "CallbackError" /\ AfterDraws(r, f - 1)

\* a callback failure after a completed draw, the cursor on the next slot
C4_Witness ==
  /\ err = "CallbackError" /\ failed = 1 /\ drawn = 1 /\ position = 1
  /\ Cap = 2 /\ pages = <<>>

\* C5: every draw, completed or failed, leaves as many restoreState calls
\* as saveState calls on the canvas.
C5_TransformRestored ==
  Count(Doc, {"saveState"}) = Count(Doc, {"restoreState"})

\* C6: a close() after close() has released the canvas raises, whatever
\* the cursor; it ends no page and saves nothing a second time.
C6_DoubleCloseFails ==
  /\ canvas = "None" =>
       LET r == closeCanvas(Self)
       IN /\ r.err = "AttributeError"
          /\ r.pages = pages
          /\ r.code = code
          /\ r.saves = saves
          /\ r.canvas = "None"
  /\ saves <= 1
  /\ errIn = "close" => (err = "AttributeError" /\ canvas # "Canvas")

\* a second close has raised, with the cursor in the middle of a sheet
C6_Witness ==
  /\ canvas = "None" /\ errIn = "close" /\ err = "AttributeError"
  /\ position > 0 /\ saves = 1 /\ Len(pages) = 1

\* the same with the cursor at slot 0
C6_WitnessAtZero ==
  /\ canvas = "None" /\ errIn = "close" /\ err = "AttributeError"
  /\ position = 0 /\ saves = 1

\* C7: after any number j >= 0 of completed draws, failed draws in between
\* or not, close() succeeds and every unit drawn is on a finalized page:
\* the finalized pages hold j units together and none is left over.
C7_EarlyStopSafe ==
  /\ canvas = "Canvas" =>
       LET r == closeCanvas(Self)
       IN /\ r.err = "ok"
          /\ Units(Flatten(r.pages)) = drawn
          /\ Units(r.code) = 0
  /\ canvas = "None" =>
       /\ Units(Flatten(pages)) = drawn
       /\ Units(code) = 0

\* closed after a failed draw in the middle of a sheet
C7_Witness ==
  /\ canvas = "None" /\ failed = 1 /\ drawn = 1 /\ position = 1
  /\ Len(pages) = 1 /\ Units(pages[1]) = 1
  /\ Count(pages[1], {"raise"}) = 1

\* C8: for 0 <= i < across * down, topLeft(i) is
\*   (marginLeft + col * (labelWidth + columnGutter),
\*    pageHeight - marginTop - row * rowGutter - (row + 1) * labelHeight)
\* with (col, row) = divmod(i, down) top-down and (row, col) =
\* divmod(i, across) left-right; on the 2 x 5 sheet of 288 x 144 labels,
\* margins (18, 36), no gutters, page height 792, top-down, topLeft(0) is
\* (18, 612) and topLeft(1) is (18, 468).
Origin(i) ==
  LET T   == labelInfo[label]
      col == IF topDown THEN i \div down ELSE i % across
      row == IF topDown THEN i % down ELSE i \div across
  IN <<T.margin[1] + col * (T.label_size[1] + T.gutter_size[1]),
       T.pagesize[2] - T.margin[2] - row * T.gutter_size[2]
         - (row + 1) * T.label_size[2]>>

ScenarioC ==
  /\ label = "avery5163" /\ across = 2 /\ down = 5 /\ topDown
  /\ margins = <<18 * Pt, 36 * Pt>> /\ size = <<288 * Pt, 144 * Pt>>
  /\ gutter = 0 /\ labelsep[1] = size[1] /\ pagesize[2] = 792 * Pt

C8_OriginFormula ==
  /\ \A i \in 0..(Cap - 1) :
       /\ topLeft(Self, i, None) = Origin(i)
       /\ topLeft([position |-> i], None, None) = Origin(i)
  /\ (label = "avery5163" /\ across = 2 /\ down = 5 /\ topDown) =>
       /\ ScenarioC
       /\ topLeft(Self, 0, None) = <<18 * Pt, 612 * Pt>>
       /\ topLeft(Self, 1, None) = <<18 * Pt, 468 * Pt>>

\* the second label of the 2 x 5 sheet has been placed at (18, 468)
C8_Witness ==
  /\ ScenarioC
  /\ position = 2
  /\ \E j \in 1..Len(code) : code[j] = Op("translate", 18 * Pt, 468 * Pt)

\* C9: render(thing, count) with an integer count draws count labels, and
\* render(thing, n) then render(thing, m) leaves the state render(thing,
\* n + m) leaves, which is the state n + m calls render(thing, 1) leave.
RECURSIVE OneByOne(_, _, _)
OneByOne(self, thing, k) ==
  IF k = 0
  THEN self
  ELSE OneByOne(renderCount(self, thing, 1, 0), thing, k - 1)

C9_RenderAdditive ==
  canvas = "Canvas" =>
    \A thing \in {"callable", "str"} :
      \A n \in 0..MaxCount : \A m \in 0..(MaxCount - n) :
        \A whole \in {renderCount(Self, thing, n + m, 0)} :
          /\ whole.err = "ok"
          /\ Units(Flatten(whole.pages) \o whole.code) = Units(Doc) + n + m
          /\ renderCount(renderCount(Self, thing, n, 0), thing, m, 0) = whole
          /\ OneByOne(Self, thing, n + m) = whole

\* one render call has drawn a form three times on a two-slot sheet
C9_Witness ==
  /\ canvas = "Canvas" /\ calls = 1 /\ drawn = 3 /\ failed = 0
  /\ Cap = 2 /\ Len(pages) = 1 /\ position = 1
  /\ \A u \in 1..2 : Drawn(pages[1])[u].kind = "doForm"
  /\ Drawn(code)[1].kind = "doForm"

\* C10: render with an iterator over s_0 .. s_(n-1), from position 0,
\* calls the callback n times, the i-th time with s_i, and draws s_i at slot
\* i mod c of page i div c; the iterator is left exhausted.
ExpectPage(src, j) ==
  LET n == IF Len(src) - (j - 1) * Cap < Cap
           THEN Len(src) - (j - 1) * Cap
           ELSE Cap
  IN [k \in 1..n |-> [at |-> SlotOrigin(k - 1), kind |-> "call",
                      arg |-> src[(j - 1) * Cap + k]]]

C10_OneItemPerSlot ==
  (canvas = "Canvas" /\ position = 0) =>
    \A n \in 0..MaxItems :
      LET src == Items(n)
          r   == renderIter([Self EXCEPT !.it = src], "callable", 0)
          new == Len(r.pages) - Len(pages)
      IN /\ r.err = "ok"
         /\ r.it = <<>>
         /\ new = n \div Cap
         /\ \A j \in 1..new :
              Drawn(r.pages[Len(pages) + j]) = ExpectPage(src, j)
         /\ Drawn(r.code) = ExpectPage(src, new + 1)
         /\ \A j \in 1..Len(pages) : r.pages[j] = pages[j]

\* two items on a one-slot sheet: the second is alone on page 2
C10_Witness ==
  /\ canvas = "Canvas" /\ calls = 1 /\ Cap = 1 /\ drawn = 2 /\ it = <<>>
  /\ Len(pages) = 2
  /\ Drawn(pages[1]) = <<[at |-> SlotOrigin(0), kind |-> "call", arg |-> 1]>>
  /\ Drawn(pages[2]) = <<[at |-> SlotOrigin(0), kind |-> "call", arg |-> 2]>>

\* C11: constructing a renderer from a template name the catalog does not
\* have fails with the lookup's not-found error (KeyError) inside __init__;
\* no renderer results, so no sink is ever opened and no draw, page or
\* flush event ever happens.
C11_UnknownLabelFails ==
  label \notin DOMAIN labelInfo =>
    /\ err = "KeyError"
    /\ errIn = "__init__"
    /\ ~Constructed
    /\ canvas = "absent"
    /\ Doc = <<>>
    /\ saves = 0
    /\ drawn = 0
    /\ failed = 0

C11_Witness ==
  /\ label = "avery0000"
  /\ label \notin DOMAIN labelInfo
  /\ err = "KeyError"
  /\ errIn = "__init__"

\* C12: in a run that started at position 0, while the canvas is open,
\* after the j-th successful draw exactly floor(j / c) pages are finalized
\* and position = j mod c (c = across * down): the full page is ended at
\* once by the draw that fills it, with no later draw or close needed.
\* Stated of the state after every call and of every number of further
\* draws from it.
C12_EagerPageBreak ==
  (canvas = "Canvas" /\ startPos = 0) =>
    /\ Len(pages) = drawn \div Cap
    /\ position = drawn % Cap
    /\ \A n \in 0..MaxCount :
         \A r \in {renderCount(Self, "callable", n, 0)} :
           /\ r.canvas = "Canvas"
           /\ Len(r.pages) = (drawn + n) \div Cap
           /\ r.position = (drawn + n) % Cap
           /\ r.saves = 0

\* two draws on a two-slot sheet, not closed: the page is already ended
C12_Witness ==
  /\ canvas = "Canvas" /\ startPos = 0 /\ Cap = 2 /\ drawn = 2
  /\ Len(pages) = 1 /\ position = 0 /\ code = <<>> /\ saves = 0

Min(a, b) == IF a < b THEN a ELSE b

\* C13: for a renderer constructed with the default position, in every
\* reachable state 0 <= position < across * down: after successful draws,
\* failed draws, draws with count 0, and close.  So every slot index handed
\* to topLeft is a valid one: each translate in the document is the origin
\* of a slot in 0..c-1 (and of none further on than the draws completed).
C13_CursorInRange ==
  Constructed =>
    /\ position \in 0..(Cap - 1)
    /\ \A k \in 1..Len(Doc) :
         Doc[k].op = "translate" =>
           \E i \in 0..Min(Cap - 1, drawn) :
             SlotOrigin(i) = <<Doc[k].a, Doc[k].b>>
    /\ canvas = "Canvas" =>
         \A count \in 0..MaxCount : \A f \in 0..count :
           renderCount(Self, "callable", count, f).position \in 0..(Cap - 1)

\* two draws filled the two-slot sheet, the third failed, then close
C13_Witness ==
  /\ Constructed /\ canvas = "None" /\ Cap = 2
  /\ drawn = 2 /\ failed = 1 /\ position = 0
  /\ Len(pages) = 1

\* The template's label size and gutters, as the catalog gives them.
labelWidth == labelInfo[label].label_size[1]
labelHeight == labelInfo[label].label_size[2]
columnGutter == labelInfo[label].gutter_size[1]
rowGutter == labelInfo[label].gutter_size[2]

OriginSet(td, a, b) == {place(scan(td, i)) : i \in a..(b - 1)}

\* The origins of the cells of the grid.
Cells == {place(<<col, row>>) : col \in 0..(across - 1), row \in 0..(down - 1)}

\* C15 (as stated): for every index range [a, b) within [0, across * down)
\* the set of origins { topLeft(i) : a <= i < b } is the same with
\* topDown = True and with topDown = False.
C15_AnyRangeSameOrigins ==
  Constructed =>
    \A a \in 0..Cap : \A b \in a..Cap :
      OriginSet(TRUE, a, b) = OriginSet(FALSE, a, b)

\* C15 (amended): over the whole range [0, across * down) the set of
\* origins is the same in both scan orders: each order maps the indices
\* one-to-one onto the cells of the grid; topLeft uses the order topDown
\* selects.  A proper sub-range can give different sets.
C15_FullRangeSameOrigins ==
  Constructed =>
    /\ OriginSet(TRUE, 0, Cap) = Cells
    /\ OriginSet(FALSE, 0, Cap) = Cells
    /\ Cardinality(Cells) = Cap
    /\ \A i \in 0..(Cap - 1) : SlotOrigin(i) = place(scan(topDown, i))

\* the 2 x 5 sheet: the same ten origins in both orders, but slots 0 and 1
\* are one column top-down and one row left-to-right
C15_Witness ==
  /\ Constructed /\ across = 2 /\ down = 5
  /\ OriginSet(TRUE, 0, 10) = OriginSet(FALSE, 0, 10)
  /\ Cardinality(OriginSet(TRUE, 0, 10)) = 10
  /\ OriginSet(TRUE, 0, 2) # OriginSet(FALSE, 0, 2)
  /\ place(scan(TRUE, 1)) = place(<<0, 1>>)
  /\ place(scan(FALSE, 1)) = place(<<1, 0>>)

\* The label rectangles [x, x + w) x [y, y + h) at origins p and q have no
\* point in common.
Disjoint(p, q) ==
  \/ p[1] + size[1] <= q[1]
  \/ q[1] + size[1] <= p[1]
  \/ p[2] + size[2] <= q[2]
  \/ q[2] + size[2] <= p[2]

\* The units of every page of the document, the open one last.
PageUnits == [p \in 1..(Len(pages) + 1) |->
               Drawn(IF p <= Len(pages) THEN pages[p] ELSE code)]

OneDraw(content) ==
  <<Op("saveState", 0, 0),
    Op("translate", SlotOrigin(position)[1], SlotOrigin(position)[2])>>
  \o (IF debug
      THEN <<Op("setLineWidth", 0, 0), Op("roundRect", size[1], size[2])>>
      ELSE <<>>)
  \o <<Op(content, 0, 0), Op("restoreState", 0, 0)>>

\* The operations of the first p pages.
UpToPage(p) == Flatten(SubSeq(pages, 1, p))

\* C17: one successful draw is, in this order: saveState, translate to
\* topLeft(position), the debug outline if and only if debug is set, the
\* content, restoreState, and then advance (so the restoreState is the last
\* operation of a page the draw fills).  Every page is finalized with no
\* saved transform state outstanding, and in debug mode every content is
\* directly preceded by the outline of its slot.
C17_DrawOrder ==
  /\ canvas = "Canvas" =>
       \A thing \in {"callable", "str"} :
         \A r \in {renderBody(Self, thing, FALSE)} :
           /\ r.err = "ok"
           /\ Flatten(r.pages) \o r.code
                = Doc \o OneDraw(IF thing = "str" THEN "doForm" ELSE "call")
           /\ r.position = (position + 1) % Cap
           /\ Len(r.pages) = Len(pages) + (IF position + 1 = Cap THEN 1 ELSE 0)
           /\ position + 1 = Cap =>
                /\ r.code = <<>>
                /\ r.pages[Len(r.pages)][Len(r.pages[Len(r.pages)])].op
                     = "restoreState"
  /\ \A p \in 1..Len(pages) :
       Count(UpToPage(p), {"saveState"}) = Count(UpToPage(p), {"restoreState"})
  /\ \A k \in 1..Len(Doc) :
       Doc[k].op \in {"call", "doForm"} =>
         /\ k > 2
         /\ debug <=> Doc[k - 1].op = "roundRect"
         /\ ~debug <=> Doc[k - 1].op = "translate"

\* The items of src that r has taken from it.
Taken(src, r) == Len(src) - Len(r.it)

\* C18: render_iterator takes the items one at a time: when the callback
\* runs for the f-th item (observed by its raising there), exactly f items
\* have been taken, f - 1 draws are complete with the cursor advanced and
\* the pages they filled ended, and the items after the f-th are still in
\* the iterator; a run to the end has taken and drawn them all.  So the
\* items taken never exceed the completed draws plus one.
C18_LazyConsumption ==
  canvas = "Canvas" =>
    \A n \in 0..MaxItems : \A f \in 0..n :
      \A r \in {render_iterator([Self EXCEPT !.it = Items(n)], "callable", f)} :
        \A done \in {Units(Flatten(r.pages) \o r.code) - Units(Doc)} :
          /\ Taken(Items(n), r) <= done + 1
          /\ f = 0 => (r.err = "ok" /\ done = n /\ r.it = <<>>)
          /\ f > 0 => /\ r.err = "CallbackError"
                      /\ Taken(Items(n), r) = f
                      /\ r.it = SubSeq(Items(n), f + 1, n)
                      /\ AfterDraws(r, f - 1)

\* the callback raised on the second of three items: two are taken, one is
\* drawn, the third is still in the iterator
C18_Witness ==
  /\ errIn = "render_iterator" /\ err = "CallbackError"
  /\ it = <<3>> /\ drawn = 1 /\ failed = 1
  /\ \E k \in 1..Len(Doc) : Doc[k].op = "raise" /\ Doc[k].a = 2

\* The labels a run over items 1..n draws from here when the callback
\* raises on item f and the caller retries: item f is missing, and each
\* later item is one slot before the slot of its sequence index.
RetryUnits(n, f) ==
  [k \in 1..(n - 1) |->
     [at |-> SlotOrigin((position + k - 1) % Cap), kind |-> "call",
      arg |-> IF k < f THEN k ELSE k + 1]]

\* C19: when the callback raises on the f-th item in render_iterator, the
\* item is already taken from the iterator and the cursor is where the
\* failed draw found it: items taken = completed draws + 1.  Calling render
\* again with the same iterator draws item f + 1 at the failed slot; item f
\* is never drawn, and every later item is one slot earlier than its
\* sequence index gives.
C19_RetrySkipsFailedItem ==
  canvas = "Canvas" =>
    \A n \in 1..MaxItems : \A f \in 1..n :
      \A r1 \in {renderIter([Self EXCEPT !.it = Items(n)], "callable", f)} :
        \A r2 \in {renderIter([r1 EXCEPT !.err = "ok"], "callable", 0)} :
          /\ r1.err = "CallbackError"
          /\ r1.it = SubSeq(Items(n), f + 1, n)
          /\ r1.position = (position + f - 1) % Cap
          /\ Taken(Items(n), r1)
               = Units(Flatten(r1.pages) \o r1.code) - Units(Doc) + 1
          /\ r2.err = "ok"
          /\ r2.it = <<>>
          /\ Drawn(Flatten(r2.pages) \o r2.code)
               = Drawn(Doc) \o RetryUnits(n, f)
          /\ r2.position = (position + n - 1) % Cap

\* items 1, 2, 3 with the callback raising on 2, then the retry: item 3 is
\* in the second slot and item 2 is nowhere
C19_Witness ==
  /\ canvas = "Canvas" /\ err = "ok" /\ it = <<>> /\ Cap >= 2
  /\ failed = 1 /\ drawn = 2 /\ position = 2 % Cap
  /\ \E k \in 1..Len(Doc) : Doc[k].op = "raise" /\ Doc[k].a = 2
  /\ Drawn(Doc) = <<[at |-> SlotOrigin(0), kind |-> "call", arg |-> 1],
                    [at |-> SlotOrigin(1), kind |-> "call", arg |-> 3]>>

\* The slot of the first label of page p in a run that started at startPos.
FirstSlot(p) == IF p = 1 THEN startPos ELSE 0

\* C20: a renderer constructed with position = p0 in kwargs, 0 <= p0 < c,
\* keeps 0 <= position < c.  While the canvas is open, after j successful
\* draws floor((p0 + j) / c) pages are finalized and position is
\* (p0 + j) mod c: the first page is ended by draw c - p0, each later one c
\* draws on.  The first page holds c - p0 labels in slots p0..c-1, its
\* slots 0..p0-1 left empty; every later finalized page holds c labels.
C20_StartPosition ==
  Constructed =>
    /\ startPos \in 0..(Cap - 1)
    /\ position \in 0..(Cap - 1)
    /\ canvas = "Canvas" =>
         /\ Len(pages) = (startPos + drawn) \div Cap
         /\ position = (startPos + drawn) % Cap
         /\ \A n \in 0..MaxCount :
              \A r \in {renderCount(Self, "callable", n, 0)} :
                /\ Len(r.pages) = (startPos + drawn + n) \div Cap
                /\ r.position = (startPos + drawn + n) % Cap
         /\ \A p \in 1..Len(pages) :
              Len(PageUnits[p]) = Cap - FirstSlot(p)
    /\ \A p \in 1..(Len(pages) + 1) :
         /\ Len(PageUnits[p]) <= Cap - FirstSlot(p)
         /\ \A k \in 1..Len(PageUnits[p]) :
              PageUnits[p][k].at = SlotOrigin(FirstSlot(p) + k - 1)
         /\ \A k \in 1..Len(PageUnits[p]) : \A i \in 0..(FirstSlot(p) - 1) :
              PageUnits[p][k].at # SlotOrigin(i)

\* the 2 x 5 sheet entered at slot 8: two draws end the first page, the
\* third label is in slot 0 of the second
C20_Witness ==
  /\ canvas = "Canvas" /\ across = 2 /\ down = 5 /\ startPos = 8
  /\ drawn = 3 /\ Len(pages) = 1 /\ position = 1
  /\ Len(PageUnits[1]) = 2
  /\ PageUnits[1][1].at = SlotOrigin(8)
  /\ PageUnits[1][2].at = SlotOrigin(9)
  /\ PageUnits[2][1].at = SlotOrigin(0)

====
